---- MODULE Spec2Model ----
(***************************************************************************)
(* SOFR calendar-roll backtests of project/Q6_new-ayush.py (the            *)
(* spread-conditional strategy) and project/Q6_updated.py (the             *)
(* always-carry-second strategy followed by the enhanced slope-conditional *)
(* strategy).                                                              *)
(*                                                                         *)
(* A behaviour runs one of the two scripts over a rate table whose rows    *)
(* are drawn one date at a time.  The loops of the scripts are the         *)
(* actions; the vectorised pandas columns computed after a loop            *)
(* (held_rate, diff, contract_change, pnl) are operators over the lists    *)
(* the loop has built so far: each of them at date d reads dates d and     *)
(* d-1 only, so its value on a prefix of the table is its value on the     *)
(* whole table.  Before the loops a script orders the contract columns     *)
(* (action Sort); an unknown month symbol ends it there with KeyError.     *)
(*                                                                         *)
(* Units: a rate is an integer number of rate units; a P&L is rate units   *)
(* times DV01.  A float that may be missing is a sequence: <<>> is NaN,    *)
(* <<x>> is the number x.  A contract code "SR3" + symbol + digit is the   *)
(* pair <<symbol, digit>>, so c[1] is the script's c[3] and c[2] its       *)
(* int(c[4]).                                                              *)
(***************************************************************************)
EXTENDS Integers, Sequences, FiniteSets

VARIABLES
    script,             \* which script runs: "Q6_new" or "Q6_updated"
    phase,              \* "start", "loop" (ordering done) or "KeyError" (script ended)
    contracts,          \* both scripts: list contracts, the SR3 columns in column order
    contracts_sorted,   \* both scripts: list contracts_sorted
    rows,               \* the rows of sofr_rates iterated so far, in date order
    held_contract,      \* both scripts: list held_contract
    front_contract,     \* Q6_new: list front_contract
    position,           \* Q6_new: list position
    current_held,       \* Q6_new: carried current_held
    current_front,      \* Q6_new: carried current_front
    in_position,        \* Q6_new: carried in_position
    current_contract,   \* Q6_updated: carried current_contract
    enh_pnl,            \* Q6_updated: list enh_pnl
    enh_held_contract,  \* Q6_updated: list enh_held_contract
    prev_rate,          \* Q6_updated: carried prev_rate
    prev_contract       \* Q6_updated: carried prev_contract

vars == <<script, phase, contracts, contracts_sorted, rows, held_contract, front_contract, position, current_held,
          current_front, in_position, current_contract, enh_pnl,
          enh_held_contract, prev_rate, prev_contract>>

\* Number of dates of the rate table.
MaxDays == 3

\* The rate levels a quote can take.
Rates == {1, 2, 3}

\* Python None (a contract that is absent, a carried value that is unset).
None == << >>

\* np.nan (a missing float).
NaN == << >>

\* The SR3 columns of the backtested table, in column order (not calendar
\* order).
TableColumns == << <<"M", 4>>, <<"Z", 3>>, <<"H", 4>> >>

month_map == [s \in {"H", "M", "U", "Z"} |->
                 CASE s = "H" -> 3 [] s = "M" -> 6 [] s = "U" -> 9 [] s = "Z" -> 12]

\* Mutation of parse_contract: the key is (month, year).
parse_contract_month_first(c) == <<month_map[c[1]], 2020 + c[2]>>

parse_contract(c) == <<2020 + c[2], month_map[c[1]]>>

\* Tuple order of Python on the (year, month) keys: k1 <= k2.
KeyLE(k1, k2) == k1[1] < k2[1] \/ (k1[1] = k2[1] /\ k1[2] <= k2[2])

RECURSIVE InsertSorted(_, _)
InsertSorted(c, s) ==
    IF s = << >> THEN <<c>>
    ELSE IF KeyLE(parse_contract(Head(s)), parse_contract(c))
         THEN <<Head(s)>> \o InsertSorted(c, Tail(s))
         ELSE <<c>> \o s

\* sorted(seq, key=parse_contract): stable, ascending.
RECURSIVE sorted(_)
sorted(s) ==
    IF s = << >> THEN << >>
    ELSE InsertSorted(s[Len(s)], sorted(SubSeq(s, 1, Len(s) - 1)))

\* Every code of a list has a month symbol month_map knows; otherwise the
\* key function raises KeyError on it.
KeysDefined(s) == \A i \in 1..Len(s) : s[i][1] \in DOMAIN month_map

\* contracts_sorted = sorted(contracts, key=parse_contract): the key is
\* computed for every element, so one unknown month symbol ends the script
\* with KeyError before contracts_sorted is bound.
Sort ==
    /\ phase = "start"
    /\ IF KeysDefined(contracts)
       THEN phase' = "loop" /\ contracts_sorted' = sorted(contracts)
       ELSE phase' = "KeyError" /\ contracts_sorted' = contracts_sorted
    /\ UNCHANGED <<script, contracts, rows, held_contract, front_contract,
                   position, current_held, current_front, in_position,
                   current_contract, enh_pnl, enh_held_contract, prev_rate,
                   prev_contract>>

ContractSet == {contracts[i] : i \in 1..Len(contracts)}

\* One row of sofr_rates: every contract has a quote or NaN.
RowSet == [ContractSet -> {NaN} \cup {<<r>> : r \in Rates}]

\* available = [c for c in contracts_sorted if pd.notna(row[c])]
available(row) == SelectSeq(contracts_sorted, LAMBDA c : row[c] # NaN)

DV01 == 100 * 25

-----------------------------------------------------------------------------
(* Q6_new-ayush.py: the selector loop.  Each branch gives the carried      *)
(* values after the iteration and the three values it appends.             *)

\* Mutation of SpreadInsufficient: the carried contracts are appended.
SpreadInsufficientStale(ch, cf) ==
    [current_held |-> ch, current_front |-> cf, in_position |-> FALSE,
     held |-> ch, front |-> cf, pos |-> 0]

\* len(available) < 2
SpreadInsufficient(ch, cf) ==
    [current_held |-> ch, current_front |-> cf, in_position |-> FALSE,
     held |-> None, front |-> None, pos |-> 0]

\* Mutation of SpreadOpen: in_position is not set.
SpreadOpenNoFlag(front, second) ==
    [current_held |-> second, current_front |-> front, in_position |-> FALSE,
     held |-> second, front |-> front, pos |-> 0]

\* row[front] > row[second]: open or continue position
SpreadOpen(front, second) ==
    [current_held |-> second, current_front |-> front, in_position |-> TRUE,
     held |-> second, front |-> front, pos |-> 1]

\* else: flat
SpreadFlat(ch, cf) ==
    [current_held |-> None, current_front |-> None, in_position |-> FALSE,
     held |-> None, front |-> None, pos |-> 0]

\* Mutation of SpreadSignal: the comparison is not strict.
SpreadSignalNonStrict(r1, r2) == r1[1] >= r2[1]

\* The condition of the if: row[front] > row[second] on two present quotes.
SpreadSignal(r1, r2) == r1[1] > r2[1]

SpreadBody(row, ch, cf) ==
    LET av == available(row) IN
    IF Len(av) < 2 THEN SpreadInsufficient(ch, cf)
    ELSE IF SpreadSignal(row[av[1]], row[av[2]]) THEN SpreadOpen(av[1], av[2])
         ELSE SpreadFlat(ch, cf)

\* Mutation of SpreadIter: the len(available) < 2 branch continues without
\* appending to position.
SpreadIterMissingAppend ==
    /\ script = "Q6_new"
    /\ phase = "loop"
    /\ Len(rows) < MaxDays
    /\ \E row \in RowSet :
          LET b == SpreadBody(row, current_held, current_front) IN
          /\ rows' = Append(rows, row)
          /\ current_held' = b.current_held
          /\ current_front' = b.current_front
          /\ in_position' = b.in_position
          /\ held_contract' = Append(held_contract, b.held)
          /\ front_contract' = Append(front_contract, b.front)
          /\ position' = IF Len(available(row)) < 2 THEN position
                         ELSE Append(position, b.pos)
    /\ UNCHANGED <<script, phase, contracts, contracts_sorted, current_contract,
                   enh_pnl, enh_held_contract, prev_rate, prev_contract>>

SpreadIter ==
    /\ script = "Q6_new"
    /\ phase = "loop"
    /\ Len(rows) < MaxDays
    /\ \E row \in RowSet :
          LET b == SpreadBody(row, current_held, current_front) IN
          /\ rows' = Append(rows, row)
          /\ current_held' = b.current_held
          /\ current_front' = b.current_front
          /\ in_position' = b.in_position
          /\ held_contract' = Append(held_contract, b.held)
          /\ front_contract' = Append(front_contract, b.front)
          /\ position' = Append(position, b.pos)
    /\ UNCHANGED <<script, phase, contracts, contracts_sorted, current_contract,
                   enh_pnl, enh_held_contract, prev_rate, prev_contract>>

-----------------------------------------------------------------------------
(* Q6_updated.py: the 2nd-contract carry loop.                             *)

\* Mutation of CarryRoll: the strategy starts in the front contract.
CarryRollStartsInFront(cur, front, second) ==
    IF cur = None THEN front
    ELSE IF cur = front THEN second
    ELSE cur

\* Mutation of CarryRoll: the day's second contract is always taken.
CarryRollAlwaysSecond(cur, front, second) == second

\* The carried current_contract after an iteration with >= 2 available.
CarryRoll(cur, front, second) ==
    IF cur = None THEN second
    ELSE IF cur = front THEN second
    ELSE cur

\* Mutation of CarryInsufficient: the carried contract is appended.
CarryInsufficientStale(cur) == [current_contract |-> cur, held |-> cur]

\* len(available) < 2: None is appended, current_contract is left as it is.
CarryInsufficient(cur) == [current_contract |-> cur, held |-> None]

\* One iteration: the carried contract after it and the value appended.
CarryBody(row, cur) ==
    LET av == available(row) IN
    IF Len(av) < 2 THEN CarryInsufficient(cur)
    ELSE LET c == CarryRoll(cur, av[1], av[2]) IN
         [current_contract |-> c, held |-> c]

CarryIter ==
    /\ script = "Q6_updated"
    /\ phase = "loop"
    /\ enh_held_contract = << >>
    /\ Len(rows) < MaxDays
    /\ \E row \in RowSet :
          LET b == CarryBody(row, current_contract) IN
          /\ rows' = Append(rows, row)
          /\ current_contract' = b.current_contract
          /\ held_contract' = Append(held_contract, b.held)
    /\ UNCHANGED <<script, phase, contracts, contracts_sorted, front_contract,
                   position, current_held, current_front, in_position, enh_pnl,
                   enh_held_contract, prev_rate, prev_contract>>

-----------------------------------------------------------------------------
(* Q6_updated.py: the enhanced loop, run over the same rows once the carry *)
(* loop has ended.                                                         *)

\* Mutation of EnhSignal: the comparison is strict.
EnhSignalStrict(r1, r2) == r2[1] > r1[1]

\* hold = r2 >= r1
EnhSignal(r1, r2) == r2[1] >= r1[1]

\* Mutation of EnhDayPnl: the previous contract is not compared.
EnhDayPnlAnyContract(pr, pc, second, r2) ==
    IF pr = None THEN <<0>>
    ELSE <<-(r2[1] - pr[1]) * 100 * 25>>

\* pnl of a day that holds second at rate r2.
EnhDayPnl(pr, pc, second, r2) ==
    IF pr = None \/ pc # second THEN <<0>>
    ELSE <<-(r2[1] - pr[1]) * 100 * 25>>

EnhBody(row, pr, pc) ==
    LET av == available(row) IN
    IF Len(av) < 2
    THEN [pnl |-> NaN, held |-> None, prev_rate |-> None, prev_contract |-> None]
    ELSE LET front == av[1]
             second == av[2]
             r1 == row[front]
             r2 == row[second]
         IN IF ~EnhSignal(r1, r2)
            THEN [pnl |-> <<0>>, held |-> None, prev_rate |-> None,
                  prev_contract |-> None]
            ELSE [pnl |-> EnhDayPnl(pr, pc, second, r2), held |-> second,
                  prev_rate |-> r2, prev_contract |-> second]

EnhIter ==
    /\ script = "Q6_updated"
    /\ phase = "loop"
    /\ Len(enh_held_contract) < Len(rows)
    /\ LET b == EnhBody(rows[Len(enh_held_contract) + 1], prev_rate, prev_contract) IN
          /\ enh_pnl' = Append(enh_pnl, b.pnl)
          /\ enh_held_contract' = Append(enh_held_contract, b.held)
          /\ prev_rate' = b.prev_rate
          /\ prev_contract' = b.prev_contract
    /\ UNCHANGED <<script, phase, contracts, contracts_sorted, rows, held_contract,
                   front_contract, position, current_held, current_front,
                   in_position, current_contract>>

-----------------------------------------------------------------------------
\* The start of a script over a table with the given SR3 columns.
Start(columns) ==
    /\ script \in {"Q6_new", "Q6_updated"}
    /\ phase = "start"
    /\ contracts = columns
    /\ contracts_sorted = << >>
    /\ rows = << >>
    /\ held_contract = << >>
    /\ front_contract = << >>
    /\ position = << >>
    /\ current_held = None
    /\ current_front = None
    /\ in_position = FALSE
    /\ current_contract = None
    /\ enh_pnl = << >>
    /\ enh_held_contract = << >>
    /\ prev_rate = None
    /\ prev_contract = None

Init == Start(TableColumns)

Next == Sort \/ SpreadIter \/ CarryIter \/ EnhIter

\* Both scripts.
Spec == Init /\ [][Next]_vars

\* Q6_new-ayush.py alone.
NextNew == Sort \/ SpreadIter

InitNew == script = "Q6_new" /\ Init

SpecNew == InitNew /\ [][NextNew]_vars

\* Both scripts over tables with other SR3 columns: the codes below, one of
\* them with a month symbol month_map does not know, in every column order of
\* at most two of them, and the backtested table.
Codes == {<<"Z", 3>>, <<"U", 3>>, <<"H", 4>>, <<"M", 4>>, <<"F", 4>>}

ColumnLists ==
    {<< >>} \cup {<<a>> : a \in Codes}
        \cup {s \in Codes \X Codes : s[1] # s[2]}
        \cup {TableColumns}

InitOrder == \E columns \in ColumnLists : Start(columns)

SpecOrder == InitOrder /\ [][Next]_vars

\* Q6_updated.py alone.
NextUpdated == Sort \/ CarryIter \/ EnhIter

InitUpdated == script = "Q6_updated" /\ Init

SpecUpdated == InitUpdated /\ [][NextUpdated]_vars

-----------------------------------------------------------------------------
(* The pandas columns computed after a loop, at date d (1-based) of the    *)
(* rows iterated so far.                                                   *)

Days == 1..Len(held_contract)

\* sofr_rates.loc[d, c] if c is not None else np.nan, over a contract list.
RateOf(list, d) == IF list[d] # None THEN rows[d][list[d]] ELSE NaN

held_rate == [d \in Days |-> RateOf(held_contract, d)]

front_rate == [d \in Days |-> RateOf(front_contract, d)]

\* Series.diff() of a float column: NaN on the first date and wherever either
\* operand is NaN.
diff(col, d) ==
    IF d = 1 THEN NaN
    ELSE IF col[d] = NaN \/ col[d - 1] = NaN THEN NaN
    ELSE <<col[d][1] - col[d - 1][1]>>

\* Series != Series.shift() on an object column: the shifted column starts
\* with a missing value, and pandas' element-wise != is True whenever either
\* side is missing (None or NaN), also when both are.
ObjectNE(list, d) ==
    \/ d = 1
    \/ list[d] = None
    \/ list[d - 1] = None
    \/ list[d] # list[d - 1]

\* The same on the integer column position: only the first date meets NaN.
IntNE(list, d) == d = 1 \/ list[d] # list[d - 1]

\* Mutation of contract_change: only the position column is compared.
contract_change_position_only(d) == IntNE(position, d)

contract_change(d) ==
    \/ ObjectNE(held_contract, d)
    \/ ObjectNE(front_contract, d)
    \/ IntNE(position, d)

\* .fillna(0) on one value.
fillna0(x) == IF x = NaN THEN 0 ELSE x[1]

\* delta_held after .loc[contract_change] = 0.0 and .fillna(0).
delta_held(d) == fillna0(IF contract_change(d) THEN <<0>> ELSE diff(held_rate, d))

delta_front(d) == fillna0(IF contract_change(d) THEN <<0>> ELSE diff(front_rate, d))

\* Mutation of pnl: the held leg has the sign of the front leg.
pnl_same_sign(d) == delta_held(d) * DV01 + delta_front(d) * DV01

\* Q6_new-ayush.py: pnl = -delta_held * DV01 + delta_front * DV01.
pnl(d) == (-delta_held(d)) * DV01 + delta_front(d) * DV01

\* Q6_updated.py: delta_r = held_rate.diff().
delta_r(d) == diff(held_rate, d)

\* Mutation of carry_pnl: the first row is not set to 0.
carry_pnl_first_not_reset(d) ==
    IF delta_r(d) = NaN THEN NaN
    ELSE <<(-delta_r(d)[1]) * 100 * 25>>

\* Q6_updated.py: pnl = -delta_r * 100 * 25, then pnl.iloc[0] = 0.  A NaN
\* delta_r stays NaN.
carry_pnl(d) ==
    IF d = 1 THEN <<0>>
    ELSE IF delta_r(d) = NaN THEN NaN
    ELSE <<(-delta_r(d)[1]) * 100 * 25>>

-----------------------------------------------------------------------------
(* Q6_new-ayush.py: cumulative P&L and drawdown.  pnl holds no NaN there   *)
(* (both deltas went through fillna), so cumsum, cummax and min skip       *)
(* nothing.                                                                *)

\* Mutation of cum_pnl: the day's pnl, not accumulated.
cum_pnl_not_summed(d) == pnl(d)

\* cum_pnl = pnl.cumsum(): a running total in date order.
RECURSIVE cum_pnl(_)
cum_pnl(d) == IF d = 1 THEN pnl(1) ELSE cum_pnl(d - 1) + pnl(d)

\* running_max = cum_pnl.cummax(): a running maximum in date order.
RECURSIVE running_max(_)
running_max(d) ==
    IF d = 1 THEN cum_pnl(1)
    ELSE IF cum_pnl(d) > running_max(d - 1) THEN cum_pnl(d)
         ELSE running_max(d - 1)

drawdown(d) == cum_pnl(d) - running_max(d)

\* The smallest of drawdown over dates 1..n, scanned in date order.
RECURSIVE MinDrawdownTo(_)
MinDrawdownTo(n) ==
    IF n = 1 THEN drawdown(1)
    ELSE IF drawdown(n) < MinDrawdownTo(n - 1) THEN drawdown(n)
         ELSE MinDrawdownTo(n - 1)

\* max_drawdown = drawdown.min(); NaN on an empty table.
max_drawdown == IF Days = {} THEN NaN ELSE <<MinDrawdownTo(Len(held_contract))>>

-----------------------------------------------------------------------------
(* Sharpe ratios.  Only what decides whether the division mean / std is    *)
(* carried out is modelled: the values averaged over, and whether their    *)
(* sample standard deviation is NaN, 0 or positive.                        *)

RECURSIVE SeqSum(_)
SeqSum(s) == IF s = << >> THEN 0 ELSE Head(s) + SeqSum(Tail(s))

RECURSIVE SeqSumSq(_)
SeqSumSq(s) == IF s = << >> THEN 0 ELSE Head(s) * Head(s) + SeqSumSq(Tail(s))

\* Series.std() (ddof = 1): NaN on fewer than two values; otherwise 0 exactly
\* when n * sum(x^2) = (sum x)^2, i.e. when all values are equal.
StdKind(s) ==
    IF Len(s) < 2 THEN "nan"
    ELSE IF Len(s) * SeqSumSq(s) - SeqSum(s) * SeqSum(s) = 0 THEN "zero"
    ELSE "positive"

\* The values of column col(1..n) kept by the mask keep(1..n), in date order.
RECURSIVE Kept(_, _, _)
Kept(col, keep, n) ==
    IF n = 0 THEN << >>
    ELSE IF keep[n] THEN Append(Kept(col, keep, n - 1), col[n])
         ELSE Kept(col, keep, n - 1)

\* Q6_new-ayush.py: active_pnl = pnl where position == 1.
active_pnl ==
    Kept([d \in Days |-> pnl(d)], [d \in Days |-> position[d] = 1],
         Len(held_contract))

\* Q6_updated.py: daily_pnl = pnl.dropna().
daily_pnl ==
    Kept([d \in Days |-> IF carry_pnl(d) = NaN THEN 0 ELSE carry_pnl(d)[1]],
         [d \in Days |-> carry_pnl(d) # NaN], Len(held_contract))

\* Q6_updated.py: enh_daily = enh_pnl.dropna().
enh_daily ==
    Kept([d \in DOMAIN enh_pnl |-> IF enh_pnl[d] = NaN THEN 0 ELSE enh_pnl[d][1]],
         [d \in DOMAIN enh_pnl |-> enh_pnl[d] # NaN], Len(enh_pnl))

\* A Sharpe ratio: whether mean / std was evaluated, over how many values,
\* and what std was.
SharpeOf(s, divided) == [divided |-> divided, n |-> Len(s), std |-> StdKind(s)]

\* Q6_new-ayush.py: ... if std_daily_pnl > 0 else np.nan (NaN > 0 is False).
sharpe_ratio == SharpeOf(active_pnl, StdKind(active_pnl) = "positive")

\* Q6_updated.py: sharpe_ratio = np.sqrt(252) * mean_daily_pnl / std_daily_pnl.
carry_sharpe_ratio == SharpeOf(daily_pnl, TRUE)

\* Q6_updated.py: ... if enh_std != 0 else np.nan (NaN != 0 is True).
enh_sharpe == SharpeOf(enh_daily, StdKind(enh_daily) # "zero")

-----------------------------------------------------------------------------
(* Helpers of the properties.                                              *)

\* The day's front and second contract, when it has two available.
Enough(d) == Len(available(rows[d])) >= 2

FrontOf(d) == available(rows[d])[1]

SecondOf(d) == available(rows[d])[2]

\* A value of a list differs from the value of the day before, as the values
\* themselves compare (None equals None); the first day has no day before.
Differs(list, d) == d = 1 \/ list[d] # list[d - 1]

IsNew == script = "Q6_new"

IsUpdated == script = "Q6_updated"

EnhDays == 1..Len(enh_held_contract)

-----------------------------------------------------------------------------
\* C1: Q6_new-ayush.py: on every day where held_contract, front_contract or
\* position differs from the day before (the first day included), delta_held,
\* delta_front and pnl are 0, whatever the rates.
C1_TransitionKillsDeltas ==
    IsNew =>
        \A d \in Days :
            (Differs(held_contract, d) \/ Differs(front_contract, d)
                \/ Differs(position, d))
            => delta_held(d) = 0 /\ delta_front(d) = 0 /\ pnl(d) = 0

\* A roll day: both days hold a contract, the contracts differ, and the raw
\* difference of the two held rates is not 0.
C1_Witness ==
    /\ IsNew
    /\ \E d \in Days :
          /\ d > 1
          /\ held_contract[d] # None
          /\ held_contract[d - 1] # None
          /\ held_contract[d] # held_contract[d - 1]
          /\ diff(held_rate, d) \notin {NaN, <<0>>}
          /\ diff(front_rate, d) \notin {NaN, <<0>>}

\* C2: Q6_updated.py, carry strategy: on every roll day (the held contract
\* differs from the contract held the day before) the recorded pnl is 0, and
\* on every entry day after a flat day the recorded pnl is 0; the P&L never
\* holds the difference between the rates of two different contracts.  (The
\* missing pnl the script records on an entry day is read here as no P&L, so
\* that only a number other than 0 refutes the claim.)
C2_CarryRollAndEntryPnlZero ==
    IsUpdated =>
        \A d \in Days :
            (/\ d > 1
             /\ held_contract[d] # None
             /\ held_contract[d] # held_contract[d - 1])
            => IF held_contract[d - 1] # None
               THEN carry_pnl(d) = <<0>>
               ELSE carry_pnl(d) \in {<<0>>, NaN}

\* C3: Q6_new-ayush.py: on every day where position is 0, pnl is 0.
C3_FlatPnlZero ==
    IsNew => \A d \in Days : position[d] = 0 => pnl(d) = 0

\* An exit day: in position the day before, flat today, and both contracts of
\* the day before are still quoted today at other rates.
C3_Witness ==
    /\ IsNew
    /\ \E d \in Days :
          /\ d > 1
          /\ position[d] = 0
          /\ position[d - 1] = 1
          /\ rows[d][held_contract[d - 1]] \notin {NaN, rows[d - 1][held_contract[d - 1]]}
          /\ rows[d][front_contract[d - 1]] \notin {NaN, rows[d - 1][front_contract[d - 1]]}

C5_GapResetsCarriedState ==
    /\ IsNew =>
          \A d \in Days :
              (d > 1 /\ ~Enough(d - 1) /\ Enough(d)) =>
                  held_contract[d] =
                      SpreadBody(rows[d], None, None).held
    /\ IsUpdated =>
          /\ \A d \in Days :
                (d > 1 /\ ~Enough(d - 1) /\ Enough(d)) =>
                    held_contract[d] = SecondOf(d)
          /\ \A d \in EnhDays :
                (d > 1 /\ ~Enough(d - 1) /\ Enough(d)) =>
                    /\ enh_held_contract[d] = EnhBody(rows[d], None, None).held
                    /\ enh_pnl[d] = EnhBody(rows[d], None, None).pnl

\* C6: Q6_new-ayush.py: on every day with two available contracts, position
\* is 1 with held = second and front = front exactly when rate(front) >
\* rate(second); otherwise (equality included) the day is flat with both
\* None.  Only the day's row decides.
C6_SpreadDecision ==
    IsNew =>
        \A d \in Days :
            Enough(d) =>
                IF rows[d][FrontOf(d)][1] > rows[d][SecondOf(d)][1]
                THEN /\ position[d] = 1
                     /\ held_contract[d] = SecondOf(d)
                     /\ front_contract[d] = FrontOf(d)
                ELSE /\ position[d] = 0
                     /\ held_contract[d] = None
                     /\ front_contract[d] = None

\* A day with front and second at the same rate, after a day in position.
C6_Witness ==
    /\ IsNew
    /\ \E d \in Days :
          /\ d > 1
          /\ position[d - 1] = 1
          /\ Enough(d)
          /\ rows[d][FrontOf(d)] = rows[d][SecondOf(d)]
          /\ position[d] = 0

\* C7: carry strategy: on every day with two available contracts the held
\* contract is the day's second contract, and from one such day to the next
\* the held contract changes exactly when the contract held before is the
\* day's front contract.
C7_CarryHoldsSecond ==
    IsUpdated =>
        \A d \in Days :
            Enough(d) =>
                /\ held_contract[d] = SecondOf(d)
                /\ (d > 1 /\ Enough(d - 1)) =>
                      (held_contract[d] # held_contract[d - 1]
                          <=> held_contract[d - 1] = FrontOf(d))

\* C8: carry and enhanced strategy: between two consecutive days that both
\* hold a contract, the held contract changes only if the contract held
\* before is the later day's front contract.
C8_RollLock ==
    IsUpdated =>
        /\ \A d \in Days :
              (/\ d > 1
               /\ held_contract[d - 1] # None
               /\ held_contract[d] # None
               /\ held_contract[d] # held_contract[d - 1])
              => held_contract[d - 1] = FrontOf(d)
        /\ \A d \in EnhDays :
              (/\ d > 1
               /\ enh_held_contract[d - 1] # None
               /\ enh_held_contract[d] # None
               /\ enh_held_contract[d] # enh_held_contract[d - 1])
              => enh_held_contract[d - 1] = FrontOf(d)

\* C9: Q6_new-ayush.py: on every day held_contract is a contract only if
\* position is 1, and front_contract is a contract only if held_contract is.
C9_PresenceChain ==
    IsNew =>
        \A d \in Days :
            /\ held_contract[d] # None => position[d] = 1
            /\ front_contract[d] # None => held_contract[d] # None

\* A day with fewer than two available contracts while current_held and
\* current_front still carry the contracts of the day before.
C9_Witness ==
    /\ IsNew
    /\ Len(rows) > 1
    /\ ~Enough(Len(rows))
    /\ current_held # None
    /\ current_front # None
    /\ held_contract[Len(rows)] = None

\* C10: Q6_new-ayush.py: on every day after the first where position is 1 and
\* held_contract, front_contract and position equal those of the day before,
\* pnl = DV01 * ((front today - front before) - (held today - held before)),
\* with DV01 = 2500.
C10_ContinuedDayPnl ==
    IsNew =>
        \A d \in Days :
            (/\ d > 1
             /\ position[d] = 1
             /\ position[d - 1] = 1
             /\ held_contract[d] = held_contract[d - 1]
             /\ front_contract[d] = front_contract[d - 1])
            => LET h == held_contract[d]
                   f == front_contract[d]
               IN pnl(d) = 2500 * ((rows[d][f][1] - rows[d - 1][f][1])
                                   - (rows[d][h][1] - rows[d - 1][h][1]))

\* A continued day on which the front rate moves and the pnl is not 0.
C10_Witness ==
    /\ IsNew
    /\ \E d \in Days :
          /\ d > 1
          /\ position[d] = 1
          /\ position[d - 1] = 1
          /\ held_contract[d] = held_contract[d - 1]
          /\ front_contract[d] = front_contract[d - 1]
          /\ rows[d][front_contract[d]] # rows[d - 1][front_contract[d]]
          /\ pnl(d) # 0

-----------------------------------------------------------------------------
\* The sum of pnl over a set of dates, one date at a time.
RECURSIVE PnlSum(_)
PnlSum(D) ==
    IF D = {} THEN 0
    ELSE LET d == CHOOSE x \in D : TRUE IN pnl(d) + PnlSum(D \ {d})

\* C11: Q6_new-ayush.py: for every date i, cum_pnl[i] is the sum of pnl up to
\* i, running_max[i] is the largest cum_pnl up to i, drawdown[i] = cum_pnl[i]
\* - running_max[i] is <= 0, and max_drawdown is the smallest drawdown of the
\* series (<= 0, and 0 when no pnl is negative).
C11_CumulativeAndDrawdown ==
    (IsNew /\ Days # {}) =>
        /\ \A i \in Days :
              /\ cum_pnl(i) = PnlSum(1..i)
              /\ \A j \in 1..i : running_max(i) >= cum_pnl(j)
              /\ \E j \in 1..i : running_max(i) = cum_pnl(j)
              /\ drawdown(i) = cum_pnl(i) - running_max(i)
              /\ drawdown(i) <= 0
        /\ \A i \in Days : max_drawdown[1] <= drawdown(i)
        /\ \E i \in Days : max_drawdown[1] = drawdown(i)
        /\ max_drawdown[1] <= 0
        /\ (\A i \in Days : pnl(i) >= 0) => max_drawdown[1] = 0

\* A gain followed by a loss: the last date is below the running maximum,
\* which was set on an earlier date, and max_drawdown is negative.
C11_Witness ==
    /\ IsNew
    /\ Len(held_contract) = 3
    /\ pnl(2) > 0
    /\ pnl(3) < 0
    /\ running_max(3) = cum_pnl(2)
    /\ drawdown(3) < 0
    /\ max_drawdown[1] < 0

-----------------------------------------------------------------------------
\* A Sharpe ratio whose division was not carried out with std = 0.
NoZeroDivision(sh) == sh.std = "zero" => ~sh.divided

\* C12: in each of the three Sharpe computations the division mean / std is
\* never carried out with std = 0: whenever std is 0 the result is the
\* explicit undefined value, not the result of a division.  (The claim asks
\* the same when there are no days to average over; that part is left out
\* here, so that only a division by a std of exactly 0 refutes the claim.)
C12_SharpeNeverDividesByZero ==
    /\ (IsNew /\ Days # {}) => NoZeroDivision(sharpe_ratio)
    /\ (IsUpdated /\ Days # {}) => NoZeroDivision(carry_sharpe_ratio)
    /\ (IsUpdated /\ Days # {} /\ Len(enh_pnl) = Len(rows)) =>
          NoZeroDivision(enh_sharpe)

-----------------------------------------------------------------------------
-----------------------------------------------------------------------------
\* C14: carry strategy: the first day with two available contracts holds that
\* day's second contract, and every later day with two available contracts
\* holds a contract.
C14_CarryOpensAndStaysIn ==
    IsUpdated =>
        \A d \in Days :
            Enough(d) =>
                /\ held_contract[d] # None
                /\ (\A e \in 1..(d - 1) : ~Enough(e)) =>
                      held_contract[d] = SecondOf(d)

\* A gap day first, then the opening day, then a later day with two available
\* contracts on which the contract of the opening day is still held although
\* it is not that day's second contract.
C14_Witness ==
    /\ IsUpdated
    /\ Len(held_contract) = 3
    /\ ~Enough(1)
    /\ Enough(2)
    /\ Enough(3)
    /\ held_contract[2] = SecondOf(2)
    /\ held_contract[3] = held_contract[2]
    /\ held_contract[3] # SecondOf(3)

-----------------------------------------------------------------------------
\* C15: enhanced strategy: on every day with two available contracts the held
\* contract is that day's second contract exactly when rate(second) >=
\* rate(front) (equality holds the position); otherwise the day is flat: held
\* None, pnl 0, and prev_rate and prev_contract are None after it.
C15_EnhancedDecision ==
    IsUpdated =>
        /\ \A d \in EnhDays :
              Enough(d) =>
                  IF rows[d][SecondOf(d)][1] >= rows[d][FrontOf(d)][1]
                  THEN enh_held_contract[d] = SecondOf(d)
                  ELSE enh_held_contract[d] = None /\ enh_pnl[d] = <<0>>
        /\ LET n == Len(enh_held_contract) IN
           (n > 0 /\ Enough(n)) =>
               IF rows[n][SecondOf(n)][1] >= rows[n][FrontOf(n)][1]
               THEN prev_rate = rows[n][SecondOf(n)] /\ prev_contract = SecondOf(n)
               ELSE prev_rate = None /\ prev_contract = None

\* Front and second at the same rate: the second contract is held; and a
\* flat day that follows a held day.
C15_Witness ==
    /\ IsUpdated
    /\ Len(enh_held_contract) = 3
    /\ Enough(2)
    /\ rows[2][SecondOf(2)] = rows[2][FrontOf(2)]
    /\ enh_held_contract[2] = SecondOf(2)
    /\ Enough(3)
    /\ enh_held_contract[3] = None
    /\ prev_contract = None

-----------------------------------------------------------------------------
\* C16: every selector loop produces one entry per date, in date order, on
\* every branch: after n dates held_contract, front_contract and position
\* (Q6_new-ayush.py), held_contract (carry loop), enh_pnl and
\* enh_held_contract (enhanced loop) have length n, and the entry of a date
\* that holds a contract was decided on that date's row.
C16_OneEntryPerDate ==
    /\ IsNew =>
          /\ Len(held_contract) = Len(rows)
          /\ Len(front_contract) = Len(rows)
          /\ Len(position) = Len(rows)
          /\ \A d \in 1..Len(rows) :
                held_contract[d] # None =>
                    /\ Enough(d)
                    /\ held_contract[d] = SecondOf(d)
                    /\ front_contract[d] = FrontOf(d)
    /\ IsUpdated =>
          /\ Len(held_contract) = Len(rows)
          /\ Len(enh_pnl) = Len(enh_held_contract)
          /\ Len(enh_held_contract) <= Len(rows)
          /\ \A d \in 1..Len(rows) : held_contract[d] # None => Enough(d)
          /\ \A d \in EnhDays :
                enh_held_contract[d] # None =>
                    Enough(d) /\ enh_held_contract[d] = SecondOf(d)

\* Three dates that take the three branches of the selector loop in turn:
\* too few contracts, flat, open.
C16_Witness ==
    /\ IsNew
    /\ Len(rows) = 3
    /\ ~Enough(1)
    /\ Enough(2) /\ position[2] = 0
    /\ Enough(3) /\ position[3] = 1

-----------------------------------------------------------------------------
\* The calendar key of a code whose month symbol is one of H, M, U, Z.
CalendarKey(c) ==
    <<2020 + c[2],
      CASE c[1] = "H" -> 3 [] c[1] = "M" -> 6 [] c[1] = "U" -> 9 [] c[1] = "Z" -> 12>>

QuarterlyOnly(s) == \A i \in 1..Len(s) : s[i][1] \in {"H", "M", "U", "Z"}

NothingProduced ==
    /\ rows = << >>
    /\ held_contract = << >>
    /\ front_contract = << >>
    /\ position = << >>
    /\ enh_pnl = << >>
    /\ enh_held_contract = << >>

\* C17: when every code has a month symbol among H, M, U, Z, contracts_sorted
\* is a permutation of the input in ascending (2020 + digit, month number)
\* order; when a code has another month symbol, the ordering fails before any
\* day is processed and no position or P&L is produced.
C17_ContractOrdering ==
    /\ phase = "start" => NothingProduced
    /\ phase = "loop" =>
          /\ QuarterlyOnly(contracts)
          /\ Len(contracts_sorted) = Len(contracts)
          /\ {contracts_sorted[i] : i \in 1..Len(contracts_sorted)}
                = {contracts[i] : i \in 1..Len(contracts)}
          /\ \A i \in 1..Len(contracts_sorted) : \A j \in 1..Len(contracts_sorted) :
                i < j =>
                    LET ki == CalendarKey(contracts_sorted[i])
                        kj == CalendarKey(contracts_sorted[j])
                    IN ki[1] < kj[1] \/ (ki[1] = kj[1] /\ ki[2] <= kj[2])
    /\ phase = "KeyError" => ~QuarterlyOnly(contracts) /\ NothingProduced

\* The ordering failed on a list whose first code is a quarterly one and
\* whose second is not.
C17_Witness ==
    /\ phase = "KeyError"
    /\ Len(contracts) = 2
    /\ contracts[1][1] \in {"H", "M", "U", "Z"}
    /\ contracts[2][1] \notin {"H", "M", "U", "Z"}

-----------------------------------------------------------------------------
\* C18: enhanced strategy: a day that holds the contract held the day before
\* has enh_pnl = -(rate(held, today) - rate(held, the day before)) * 2500;
\* every other day has no P&L: an entry day (the day before flat or with too
\* few contracts) and a day whose held contract differs from the one of the
\* day before have enh_pnl = 0, and a day that holds nothing has enh_pnl 0 or
\* NaN.
C18_EnhancedPnl ==
    IsUpdated =>
        \A d \in EnhDays :
            LET h == enh_held_contract[d] IN
            IF h = None THEN enh_pnl[d] \in {<<0>>, NaN}
            ELSE IF d > 1 /\ enh_held_contract[d - 1] = h
                 THEN enh_pnl[d] = <<-(rows[d][h][1] - rows[d - 1][h][1]) * 2500>>
                 ELSE enh_pnl[d] = <<0>>

\* Two consecutive held days with different contracts at different rates (no
\* P&L), followed by a day that holds the same contract at another rate (a
\* P&L other than 0).
C18_Witness ==
    /\ IsUpdated
    /\ Len(enh_pnl) = 3
    /\ enh_held_contract[1] # None
    /\ enh_held_contract[2] # None
    /\ enh_held_contract[2] # enh_held_contract[1]
    /\ rows[2][enh_held_contract[2]] # rows[1][enh_held_contract[1]]
    /\ enh_pnl[2] = <<0>>
    /\ enh_held_contract[3] = enh_held_contract[2]
    /\ enh_pnl[3] \notin {<<0>>, NaN}

\* C19: carry strategy: on every day that records a held contract, that
\* contract is one of the day's available contracts (it has a rate that day),
\* so held_rate is a number on every held day.
C19_CarryHeldIsQuoted ==
    IsUpdated =>
        \A d \in Days :
            held_contract[d] # None =>
                /\ rows[d][held_contract[d]] # NaN
                /\ held_rate[d] # NaN

\* The later key is strictly after the earlier one in (year, month) order.
StrictlyLater(c1, c2) ==
    LET k1 == CalendarKey(c1)
        k2 == CalendarKey(c2)
    IN k1[1] < k2[1] \/ (k1[1] = k2[1] /\ k1[2] < k2[2])

\* C20: carry strategy: current_contract never moves backward in calendar
\* order: of two recorded held contracts that differ, the later recorded one
\* is strictly later in (year, month) order; and once a contract has been
\* held, current_contract is the last contract recorded and never None.
C20_CarryNeverMovesBack ==
    IsUpdated =>
        /\ \A d \in Days : \A e \in Days :
              (/\ d < e
               /\ held_contract[d] # None
               /\ held_contract[e] # None
               /\ held_contract[d] # held_contract[e])
              => StrictlyLater(held_contract[d], held_contract[e])
        /\ \A d \in Days :
              (held_contract[d] # None /\ \A e \in Days : e > d => held_contract[e] = None)
              => current_contract = held_contract[d]
        /\ (\A d \in Days : held_contract[d] = None) => current_contract = None

\* A roll, then a gap day after which current_contract is still the contract
\* rolled into.
C20_Witness ==
    /\ IsUpdated
    /\ Len(held_contract) = 3
    /\ held_contract[1] # None
    /\ held_contract[2] # None
    /\ held_contract[2] # held_contract[1]
    /\ held_contract[3] = None
    /\ current_contract = held_contract[2]

====
